---------------------------- MODULE Spec2Model ----------------------------
(***************************************************************************)
(* Flood Hapi (src/app.py): the extraction pipeline of process_postcode.   *)
(*                                                                         *)
(* Data abstraction.  A GeoDataFrame is a record [cols, rows]: the set of  *)
(* column names and the ordered rows.  A geometry is a one-dimensional     *)
(* cell <<lo, hi>> (lo < hi) and the search buffer is the closed interval  *)
(* [-radius, radius]: centroid, contains, intersects and intersection are  *)
(* computed on intervals.  Text that the code upper-cases is a sequence of *)
(* one-character strings, so that str.upper() is computed, not assumed.    *)
(***************************************************************************)
EXTENDS Integers, Sequences, FiniteSets, TLC

VARIABLES
    dl,            \* download_ea_layer: the locals of one direct call
    server,        \* the remote API: the payload it holds per layer
    pc,            \* process_postcode: position of the job's main thread
    call,          \* per fetch task: locals of its download_ea_layer call
    future,        \* per fetch task: the Future (state, raised, result)
    raw_data,      \* raw_data dict: layer name -> GeoDataFrame
    rofsw_clipped, \* the pre-clipped categorical source, or None
    idx,           \* loop index of the running derive loop
    clipping,      \* the clip_to_buffer invocations in progress (by source layer)
    results,       \* results["layers"] (insertion ordered) and results["errors"]
    job_files,     \* files in the job's working directory
    archive,       \* the archive OUTPUT_DIR/<job>.zip: "none", "partial", "complete"
    job_dir,       \* whether the working directory exists
    clip_log,      \* every clip_to_buffer invocation so far: the collection it was given
    faults,        \* injected failures so far (requests, derive steps)
    bb,            \* create_buffer_bbox: the arguments and result of one direct call
    clock,         \* the wall clock, in whole seconds (datetime.now())
    jobs,          \* concurrent requests: per job its position, postcode and job_name
    output_dir     \* OUTPUT_DIR: the working directories and the archives in it

vars == <<dl, server, pc, call, future, raw_data, rofsw_clipped, idx, clipping, results,
          job_files, archive, job_dir, clip_log, faults, bb, clock, jobs, output_dir>>

\* what the steps of one observed job leave alone: the direct call of
\* create_buffer_bbox, the clock and the other requests
sidevars == <<bb, clock, jobs, output_dir>>

jobvars == <<pc, call, future, raw_data, rofsw_clipped, idx, clipping, results,
             job_files, archive, job_dir, clip_log, faults>>

-----------------------------------------------------------------------------
(* Bounds of the model *)

\* most rows of a clipped categorical source drawn for the risk-band split
MaxRows == 3

\* most failed requests injected in one job
MaxRequestFaults == 3

\* most failures injected into the derive and packaging steps of one job
MaxDeriveFaults == 1

\* the requests served at once
MaxJobs == 2

\* the seconds the clock may advance
MaxClock == 1

-----------------------------------------------------------------------------
(* Program constants *)

\* max_retries: int = 3
DEFAULT_MAX_RETRIES == 3

\* wait = attempt * 3
BACKOFF_UNIT == 3

\* if len(resp.content) < 100
MIN_CONTENT_BYTES == 100

\* the radius of the search buffer, in the units of the cells of the model
RADIUS == 2

None == "None"

EA_LAYER_IDS ==
    {"rofsw", "rofsw_0_2m_depth", "rofsw_0_3m_depth", "rofsw_0_6m_depth",
     "rofsw_0_9m_depth", "rofsw_1_2m_depth"}

Str_risk_band == "risk_band"
Str_High   == <<"H", "i", "g", "h">>
Str_Medium == <<"M", "e", "d", "i", "u", "m">>
Str_Low    == <<"L", "o", "w">>

ROFSW_LAYERS ==
    << [key |-> "risk_band_High",   ea_layer |-> "rofsw",
        filter_field |-> Str_risk_band, filter_value |-> Str_High,
        filename |-> "risk_band_High"],
       [key |-> "risk_band_Medium", ea_layer |-> "rofsw",
        filter_field |-> Str_risk_band, filter_value |-> Str_Medium,
        filename |-> "risk_band_Medium"],
       [key |-> "risk_band_Low",    ea_layer |-> "rofsw",
        filter_field |-> Str_risk_band, filter_value |-> Str_Low,
        filename |-> "risk_band_Low"],
       [key |-> "depth_0.2m", ea_layer |-> "rofsw_0_2m_depth",
        filter_field |-> None, filter_value |-> None, filename |-> "depth_0_2m"],
       [key |-> "depth_0.3m", ea_layer |-> "rofsw_0_3m_depth",
        filter_field |-> None, filter_value |-> None, filename |-> "depth_0_3m"],
       [key |-> "depth_0.6m", ea_layer |-> "rofsw_0_6m_depth",
        filter_field |-> None, filter_value |-> None, filename |-> "depth_0_6m"],
       [key |-> "depth_0.9m", ea_layer |-> "rofsw_0_9m_depth",
        filter_field |-> None, filter_value |-> None, filename |-> "depth_0_9m"],
       [key |-> "depth_1.2m", ea_layer |-> "rofsw_1_2m_depth",
        filter_field |-> None, filter_value |-> None, filename |-> "depth_1_2m"] >>

\* ROFSW_LAYERS[layer_key]
LayerCfg(k) == CHOOSE c \in { ROFSW_LAYERS[i] : i \in DOMAIN ROFSW_LAYERS } : c.key = k

\* the risk bands taken in alphabetical order
RISK_BAND_KEYS_Sorted == << "risk_band_High", "risk_band_Low", "risk_band_Medium" >>

\* for layer_key in ["risk_band_High", "risk_band_Medium", "risk_band_Low"]
RISK_BAND_KEYS == << "risk_band_High", "risk_band_Medium", "risk_band_Low" >>

\* a prefix test that takes "depth_0." for the prefix: depth_1.2m is not selected
StartsWithDepth_ZeroOnly(k) ==
    k \in {"depth_0.2m", "depth_0.3m", "depth_0.6m", "depth_0.9m"}

\* k.startswith("depth_"): the keys of the model that start with depth_
StartsWithDepth(k) ==
    k \in {"depth_0.2m", "depth_0.3m", "depth_0.6m", "depth_0.9m", "depth_1.2m"}

-----------------------------------------------------------------------------
(* Sequences *)

RECURSIVE Flatten(_)
Flatten(ss) == IF ss = << >> THEN << >> ELSE Head(ss) \o Flatten(Tail(ss))

SeqsUpTo(S, n) == UNION { [1..k -> S] : k \in 0..n }

-----------------------------------------------------------------------------
(* str.upper() *)

LowerCase == << "a", "b", "c", "d", "e", "f", "g", "h", "i", "j", "k", "l", "m",
                "n", "o", "p", "q", "r", "s", "t", "u", "v", "w", "x", "y", "z" >>
UpperCase == << "A", "B", "C", "D", "E", "F", "G", "H", "I", "J", "K", "L", "M",
                "N", "O", "P", "Q", "R", "S", "T", "U", "V", "W", "X", "Y", "Z" >>

UpperChar(c) ==
    IF \E i \in DOMAIN LowerCase : LowerCase[i] = c
    THEN UpperCase[CHOOSE i \in DOMAIN LowerCase : LowerCase[i] = c]
    ELSE c

\* value.upper()
StrUpper(s) == [i \in DOMAIN s |-> UpperChar(s[i])]

\* a missing attribute value (NaN): no text, and different from every text
NaN == << "NaN" >>

\* the comparison without .str.upper(): case-sensitive
BandEquals_CaseSensitive(v, value) == v # NaN /\ v = value

\* gdf[field].str.upper() == value.upper(), for one row: a missing value compares False
BandEquals(v, value) == v # NaN /\ StrUpper(v) = StrUpper(value)

-----------------------------------------------------------------------------
(* GeoDataFrame *)

\* gpd.GeoDataFrame(): no columns, no rows
EmptyFrame == [cols |-> {}, dtype |-> "absent", rows |-> << >>]

\* gdf.empty
IsEmpty(gdf) == gdf.cols = {} \/ gdf.rows = << >>

\* len(gdf)
Len_gdf(gdf) == Len(gdf.rows)

\* gdf[field].str: the accessor exists only for a column of text (dtype object)
HasStrAccessor(gdf) == gdf.dtype = "object"

\* gdf[gdf[field].str.upper() == value.upper()]
FilterEq(gdf, value) ==
    [gdf EXCEPT !.rows = SelectSeq(@, LAMBDA r : BandEquals(r.risk_band, value))]

-----------------------------------------------------------------------------
(* clip_to_buffer *)

\* prepared_buffer.contains(centroid): the centroid (lo+hi)/2 is in the interior
CentroidInside(g, r) == -2 * r < g[1] + g[2] /\ g[1] + g[2] < 2 * r

\* prepared_buffer.intersects(geom)
Intersects(g, r) == g[1] <= r /\ g[2] >= -r

Max2(a, b) == IF a >= b THEN a ELSE b
Min2(a, b) == IF a <= b THEN a ELSE b

\* gpd.clip of one geometry: its intersection with the buffer
Intersection(g, r) == << Max2(g[1], -r), Min2(g[2], r) >>

\* extract_polygons: a part with no area is not a polygon
IsPolygon(g) == g[1] < g[2]

\* pd.concat(..., ignore_index=True): the rows are numbered anew
Reindex(rows) == [i \in DOMAIN rows |-> [rows[i] EXCEPT !.id = i]]

\* a clip that repairs every emitted geometry by eroding it (a negative
\* buffer): each pass takes one unit off
clip_to_buffer_Erodes(gdf, r) ==
    IF IsEmpty(gdf) THEN gdf
    ELSE
      LET kept == SelectSeq(gdf.rows, LAMBDA x : Intersects(x.geom, r))
      IN  [gdf EXCEPT !.rows =
             [i \in DOMAIN kept |->
                [kept[i] EXCEPT !.geom = << Max2(@[1], -r), Min2(@[2], r) - 1 >>]]]

clip_to_buffer(gdf, r) ==
    IF IsEmpty(gdf) THEN gdf
    ELSE
      LET fully_inside == SelectSeq(gdf.rows, LAMBDA x : CentroidInside(x.geom, r))
          edge_candidates == SelectSeq(gdf.rows, LAMBDA x : ~CentroidInside(x.geom, r))
          edge_intersects == SelectSeq(edge_candidates, LAMBDA x : Intersects(x.geom, r))
          clipped == [i \in DOMAIN edge_intersects |->
                        [edge_intersects[i] EXCEPT !.geom = Intersection(@, r)]]
          clipped_edges == SelectSeq(clipped, LAMBDA x : IsPolygon(x.geom))
      IN  IF edge_candidates = << >> \/ edge_intersects = << >>
          THEN [gdf EXCEPT !.rows = fully_inside]
          ELSE [gdf EXCEPT !.rows = Reindex(fully_inside \o clipped_edges)]

-----------------------------------------------------------------------------
(* The remote vector-layer API: what one request may answer *)

CellInside   == << -1, 1 >>
CellStraddle == << 0, 3 >>     \* centroid inside, part of the cell outside
CellEdge     == << 1, 5 >>     \* centroid outside, crosses the boundary
CellTouch    == << 2, 4 >>     \* touches the boundary in one point
CellOutside  == << 4, 6 >>

Feature(parts, band) == [parts |-> parts, risk_band |-> band]

\* a dataset of the archive: the dtype of its risk_band column ("absent": it has
\* no such column) and its features
Dataset(dtype, features) == [dtype |-> dtype, features |-> features]

\* the content of one answer: its size in bytes, what the archive holds
\* ("none": no archive, "bad": not a zip, "no_shp": a zip without .shp,
\* "shp": a zip with one dataset) and the dataset
Payload(size, arch, dataset) ==
    [status |-> "ok", size |-> size, archive |-> arch, dataset |-> dataset]

NoDataset == Dataset("absent", << >>)

\* a request that raises: no connection, or a status that raise_for_status rejects
FailedResponses ==
    { [status |-> s, size |-> 0, archive |-> "none", dataset |-> NoDataset]
        : s \in {"conn_error", "http_error"} }

ZeroBytes == Payload(0, "none", NoDataset)
TinyBody  == Payload(MIN_CONTENT_BYTES - 1, "none", NoDataset)
NotAZip   == Payload(MIN_CONTENT_BYTES, "bad", NoDataset)
ZipNoShp  == Payload(MIN_CONTENT_BYTES + 1, "no_shp", NoDataset)
ZipOf(dataset) == Payload(MIN_CONTENT_BYTES + 1, "shp", dataset)

RofswMixed ==
    Dataset("object",
            << Feature(<< CellInside, CellEdge >>, Str_High),
               Feature(<< CellStraddle >>, << "m", "e", "d", "i", "u", "m" >>),
               Feature(<< CellOutside >>, Str_Low),
               Feature(<< CellInside >>, << "L", "O", "W" >>),
               Feature(<< CellInside >>, NaN) >>)

RofswOutside ==
    Dataset("object",
            << Feature(<< CellOutside >>, Str_High),
               Feature(<< CellTouch >>, Str_Low) >>)

RofswNumeric == Dataset("int64", << Feature(<< CellInside >>, << "1" >>) >>)

RofswNoColumn == Dataset("absent", << Feature(<< CellInside, CellEdge >>, NaN) >>)

DepthMixed ==
    Dataset("absent",
            << Feature(<< CellInside, CellOutside >>, NaN),
               Feature(<< CellEdge >>, NaN) >>)

DepthOutside == Dataset("absent", << Feature(<< CellOutside >>, NaN) >>)

\* what the remote API holds for the query region, per layer, during one job
Servers ==
    { [n \in EA_LAYER_IDS |-> ZeroBytes],
      [n \in EA_LAYER_IDS |->
         CASE n = "rofsw" -> ZipOf(RofswMixed)
           [] n = "rofsw_0_2m_depth" -> ZipOf(DepthMixed)
           [] n = "rofsw_0_3m_depth" -> ZipOf(DepthOutside)
           [] n = "rofsw_0_6m_depth" -> ZipOf(NoDataset)
           [] n = "rofsw_0_9m_depth" -> ZipNoShp
           [] OTHER -> ZipOf(DepthMixed)],
      [n \in EA_LAYER_IDS |->
         CASE n = "rofsw" -> ZipOf(RofswOutside)
           [] n = "rofsw_0_2m_depth" -> ZipOf(DepthMixed)
           [] n = "rofsw_0_3m_depth" -> NotAZip
           [] OTHER -> TinyBody],
      [n \in EA_LAYER_IDS |->
         IF n = "rofsw" THEN ZipOf(RofswNumeric) ELSE ZipOf(DepthOutside)],
      [n \in EA_LAYER_IDS |->
         IF n = "rofsw" THEN ZipOf(RofswNoColumn) ELSE ZipOf(DepthMixed)] }

\* the columns of a dataset read from the archive
DatasetCols(dataset) ==
    IF dataset.dtype = "absent" THEN {"geometry"} ELSE {"geometry", Str_risk_band}

\* every answer one request of a direct call may get
Responses ==
    FailedResponses
    \cup { ZeroBytes, TinyBody, NotAZip, ZipNoShp }
    \cup { ZipOf(d) : d \in { NoDataset, RofswMixed, RofswOutside, RofswNumeric,
                              RofswNoColumn, DepthMixed, DepthOutside } }

-----------------------------------------------------------------------------
(* download_ea_layer *)

\* resp.raise_for_status() after _http.post: the attempt raised
AttemptFailed(resp) == resp.status # "ok"

\* gdf.explode(index_parts = False).reset_index(drop = True)
Explode(features) ==
    Reindex(Flatten([i \in DOMAIN features |->
                       [j \in DOMAIN features[i].parts |->
                          [id |-> 0, geom |-> features[i].parts[j],
                           risk_band |-> features[i].risk_band]]]))

\* the threshold off by one: a payload of exactly 100 bytes counts as no data
TinyResponse_OffByOne(resp) == resp.size <= MIN_CONTENT_BYTES

\* if len(resp.content) < 100
TinyResponse(resp) == resp.size < MIN_CONTENT_BYTES

\* the part of download_ea_layer after the retry loop: the rule that decides the
\* outcome, and the collection returned
ParseRule(resp) ==
    IF TinyResponse(resp) THEN "tiny"
    ELSE IF resp.archive \in {"none", "bad"} THEN "bad_zip"
    ELSE IF resp.archive = "no_shp" THEN "no_shp"
    ELSE IF resp.dataset.features = << >> THEN "empty_dataset"
    ELSE "data"

ParseFrame(name, resp) ==
    CASE ParseRule(resp) \in {"tiny", "no_shp", "bad_zip"} -> EmptyFrame
      [] ParseRule(resp) = "empty_dataset" ->
            [cols |-> DatasetCols(resp.dataset), dtype |-> resp.dataset.dtype, rows |-> << >>]
      [] OTHER ->
            [cols |-> DatasetCols(resp.dataset), dtype |-> resp.dataset.dtype,
             rows |-> Explode(resp.dataset.features)]

\* the locals of a call that has just been entered
NewCall(name, max_retries) ==
    [layer_name |-> name, max_retries |-> max_retries, attempt |-> 1,
     status |-> "running", requests |-> 0, failed |-> 0, waits |-> << >>,
     size |-> -1, rule |-> None, exc |-> None, result |-> EmptyFrame]

\* a retry loop without a budget: every failed attempt is retried
MayRetry_Always(c) == TRUE

\* if attempt < max_retries
MayRetry(c) == c.attempt < c.max_retries

\* a constant backoff: the same wait after every failed attempt
BackoffWait_Constant(attempt) == BACKOFF_UNIT

\* wait = attempt * 3
BackoffWait(attempt) == attempt * BACKOFF_UNIT

\* one iteration of the retry loop of a running call, given the answer to its
\* request; a successful request leaves the loop and the rest of the function runs
DownloadStep(c, resp) ==
    LET sent == [c EXCEPT !.requests = @ + 1]
        got  == [sent EXCEPT !.size = resp.size]
    IN  IF AttemptFailed(resp)
        THEN IF MayRetry(c)
             THEN [sent EXCEPT !.failed = @ + 1,
                               !.waits = Append(@, BackoffWait(c.attempt)),
                               !.attempt = @ + 1]
             ELSE [sent EXCEPT !.failed = @ + 1, !.status = "raised",
                               !.exc = resp.status]
        ELSE IF ParseRule(resp) = "bad_zip"
             THEN [got EXCEPT !.status = "raised", !.rule = "bad_zip",
                              !.exc = "bad_zip"]
             ELSE [got EXCEPT !.status = "returned", !.rule = ParseRule(resp),
                              !.result = ParseFrame(c.layer_name, resp)]

\* no call: the task has not started, or its call has returned
NoCall == [status |-> "none"]

-----------------------------------------------------------------------------
(* One direct call of download_ea_layer, observed from entry to exit *)

DlAttempt ==
    /\ dl.status = "running"
    /\ \E resp \in Responses : dl' = DownloadStep(dl, resp)
    /\ UNCHANGED << sidevars, server, jobvars >>

-----------------------------------------------------------------------------
(* process_postcode: results *)

\* raw_data.get(name, gpd.GeoDataFrame())
RawGet(name) == IF name \in DOMAIN raw_data THEN raw_data[name] ELSE EmptyFrame

\* unique_layers = set(cfg["ea_layer"] for cfg in ROFSW_LAYERS.values())
unique_layers == { ROFSW_LAYERS[i].ea_layer : i \in DOMAIN ROFSW_LAYERS }

\* depth_layers = {k: v for k, v in ROFSW_LAYERS.items() if k.startswith("depth_")}
depth_layers == SelectSeq(ROFSW_LAYERS, LAMBDA c : StartsWithDepth(c.key))

\* {"features": 0, "status": "no_data", ...}
LayerNoData(cfg) ==
    [key |-> cfg.key, features |-> 0, status |-> "no_data", error |-> None,
     filename |-> None]

\* {"features": len(gdf), "status": "ok" if saved else "empty_after_clip", ...}
LayerSaved(cfg, gdf, saved) ==
    [key |-> cfg.key, features |-> Len_gdf(gdf),
     status |-> IF saved THEN "ok" ELSE "empty_after_clip", error |-> None,
     filename |-> IF saved THEN cfg.filename ELSE None]

\* {"features": 0, "status": "error", "error": str(e), ...}
LayerError(cfg, msg) ==
    [key |-> cfg.key, features |-> 0, status |-> "error", error |-> msg,
     filename |-> None]

\* results["layers"][key] = entry: a dict keeps the order of first insertion
SetLayer(layers, entry) ==
    IF \E i \in DOMAIN layers : layers[i].key = entry.key
    THEN [i \in DOMAIN layers |-> IF layers[i].key = entry.key THEN entry ELSE layers[i]]
    ELSE Append(layers, entry)

\* if layer_result.get("error"): an absent or empty message is falsy
ErrorIsTruthy(entry) == entry.error # None /\ entry.error # ""

\* results["errors"].append(f"{layer_key}: {layer_result['error']}")
RecordLayer(res, entry) ==
    [res EXCEPT !.layers = SetLayer(@, entry),
                !.errors = IF ErrorIsTruthy(entry)
                           THEN Append(@, << entry.key, entry.error >>) ELSE @]

\* str(e) of the exceptions a derive step can raise
ErrorMessages == {"", "GEOSException"}

\* save_as_shapefile without the test for an empty collection
WritesFile_Always(gdf) == TRUE

\* save_as_shapefile skips an empty collection and returns False
WritesFile(gdf) == ~IsEmpty(gdf)

\* the working directory after open(path, "w") or to_file(path): one file per
\* name, a later write replaces the content
WriteFile(files, name, content) ==
    [f \in DOMAIN files \cup {name} |-> IF f = name THEN content ELSE files[f]]

\* the working directory after save_as_shapefile(gdf, shp_dir, name) returned
save_as_shapefile(files, gdf, name) ==
    IF WritesFile(gdf) THEN WriteFile(files, name, gdf.rows) ELSE files

\* the exception leaves process_postcode
Abort(kind) ==
    /\ pc' = "failed"
    /\ results' = [results EXCEPT !.fatal = kind]

CanFault == faults.derive < MaxDeriveFaults
Faulted == faults' = [faults EXCEPT !.derive = @ + 1]

-----------------------------------------------------------------------------
(* process_postcode: steps 1-4 *)

\* Step 1: geocode_postcode raises ValueError (not found) or a transport error
Geocode ==
    /\ pc = "geocode"
    /\ \/ /\ pc' = "setup"
          /\ UNCHANGED results
       \/ \E kind \in {"not_found", "transport"} : Abort(kind)
    /\ UNCHANGED << sidevars, dl, server, call, future, raw_data, rofsw_clipped, idx, clipping,
                    job_files, archive, job_dir, clip_log, faults >>

\* Steps 2-4: the working directory is made and one task per name is submitted
\* to the pool (max_workers = 6: every task starts at once)
Setup ==
    /\ pc = "setup"
    /\ pc' = "fetch"
    /\ job_dir' = TRUE
    /\ call' = [n \in unique_layers |-> NewCall(n, DEFAULT_MAX_RETRIES)]
    /\ future' = [n \in unique_layers |->
                    [state |-> "running", raised |-> FALSE, exc |-> None,
                     result |-> EmptyFrame]]
    /\ UNCHANGED << sidevars, dl, server, raw_data, rofsw_clipped, idx, clipping, results,
                    job_files, archive, clip_log, faults >>

\* what the Future of a finished call holds
FutureOf(c) ==
    [state |-> "finished", raised |-> (c.status = "raised"), exc |-> c.exc,
     result |-> c.result]

\* a pool thread runs one iteration of its call's retry loop
WorkerAttempt(n) ==
    /\ future[n].state = "running"
    /\ \E resp \in FailedResponses \cup {server[n]} :
         /\ AttemptFailed(resp) => faults.request < MaxRequestFaults
         /\ faults' = [faults EXCEPT
                         !.request = IF AttemptFailed(resp) THEN @ + 1 ELSE @]
         /\ LET c2 == DownloadStep(call[n], resp)
            IN  IF c2.status = "running"
                THEN /\ call' = [call EXCEPT ![n] = c2]
                     /\ UNCHANGED future
                ELSE /\ call' = [call EXCEPT ![n] = NoCall]
                     /\ future' = [future EXCEPT ![n] = FutureOf(c2)]
    /\ UNCHANGED << sidevars, dl, server, pc, raw_data, rofsw_clipped, idx, clipping, results,
                    job_files, archive, job_dir, clip_log >>

\* future.result() without the try/except: the exception of a failed fetch
\* leaves process_postcode
Collect_Uncaught(n) ==
    /\ pc = "fetch"
    /\ future[n].state = "finished"
    /\ n \notin DOMAIN raw_data
    /\ IF future[n].raised
       THEN Abort("fetch") /\ UNCHANGED raw_data
       ELSE /\ raw_data' = raw_data @@ (n :> future[n].result)
            /\ UNCHANGED << pc, results >>
    /\ UNCHANGED << sidevars, dl, server, call, future, rofsw_clipped, idx, clipping,
                    job_files, archive, job_dir, clip_log, faults >>

\* for future in as_completed(future_map): raw_data[name] = future.result(),
\* or an empty collection when the call raised
Collect(n) ==
    /\ pc = "fetch"
    /\ future[n].state = "finished"
    /\ n \notin DOMAIN raw_data
    /\ raw_data' = raw_data @@
                   (n :> IF future[n].raised THEN EmptyFrame ELSE future[n].result)
    /\ UNCHANGED << sidevars, dl, server, pc, call, future, rofsw_clipped, idx, clipping, results,
                    job_files, archive, job_dir, clip_log, faults >>

\* the loop left at the first completed future
FetchComplete_FirstOnly == \E n \in unique_layers : n \in DOMAIN raw_data

\* the loop left as soon as the categorical source is there
FetchComplete_RofswOnly == "rofsw" \in DOMAIN raw_data

\* as_completed is exhausted and the with block of the executor is left
FetchComplete == \A n \in unique_layers : n \in DOMAIN raw_data

EndFetch ==
    /\ pc = "fetch"
    /\ FetchComplete
    /\ pc' = "clip_rofsw"
    /\ UNCHANGED << sidevars, dl, server, call, future, raw_data, rofsw_clipped, idx, clipping,
                    results, job_files, archive, job_dir, clip_log, faults >>

-----------------------------------------------------------------------------
(* process_postcode: step 5, the categorical source and its three outputs *)

\* rofsw_clipped = None
NotClipped == << >>

\* the test inverted: if rofsw_gdf.empty
NeedsClip_Inverted(gdf) == IsEmpty(gdf)

\* if not rofsw_gdf.empty
NeedsClip(gdf) == ~IsEmpty(gdf)

\* rofsw_gdf = raw_data.get("rofsw", ...); the shared clip is called, or skipped
ClipRofswBegin ==
    /\ pc = "clip_rofsw"
    /\ IF NeedsClip(RawGet("rofsw"))
       THEN /\ pc' = "clip_rofsw_run"
            /\ clipping' = clipping \cup {"rofsw"}
            /\ clip_log' = Append(clip_log, "rofsw")
            /\ UNCHANGED idx
       ELSE /\ pc' = "risk_bands"
            /\ idx' = 1
            /\ UNCHANGED << clipping, clip_log >>
    /\ UNCHANGED << sidevars, dl, server, call, future, raw_data, rofsw_clipped, results,
                    job_files, archive, job_dir, faults >>

\* the clip returns, or raises: nothing catches it in process_postcode
ClipRofswEnd ==
    /\ pc = "clip_rofsw_run"
    /\ clipping' = clipping \ {"rofsw"}
    /\ \/ /\ rofsw_clipped' = << clip_to_buffer(RawGet("rofsw"), RADIUS) >>
          /\ pc' = "risk_bands"
          /\ idx' = 1
          /\ UNCHANGED << results, faults >>
       \/ /\ CanFault
          /\ Faulted
          /\ Abort("clip_rofsw")
          /\ UNCHANGED << rofsw_clipped, idx >>
    /\ UNCHANGED << sidevars, dl, server, call, future, raw_data, job_files, archive, job_dir,
                    clip_log >>

\* if rofsw_clipped is None or rofsw_clipped.empty
NoCategoricalData(clipped) == clipped = NotClipped \/ IsEmpty(clipped[1])

\* if field in rofsw_clipped.columns: filtered = ... else: filtered = rofsw_clipped
FilterClipped(clipped, cfg) ==
    IF cfg.filter_field \in clipped.cols THEN FilterEq(clipped, cfg.filter_value)
    ELSE clipped

\* rofsw_clipped[field].str raises AttributeError for a column that is not text
FilterRaises(clipped, cfg) ==
    cfg.filter_field \in clipped.cols /\ ~HasStrAccessor(clipped)

\* the loop advances to the next risk band, or to step 6
NextRiskBand ==
    IF idx < Len(RISK_BAND_KEYS)
    THEN pc' = "risk_bands" /\ idx' = idx + 1
    ELSE pc' = "depth" /\ idx' = 1

\* one iteration of: for layer_key in ["risk_band_High", ...]
RiskBandStep ==
    /\ pc = "risk_bands"
    /\ LET cfg == LayerCfg(RISK_BAND_KEYS[idx])
       IN  IF NoCategoricalData(rofsw_clipped)
           THEN /\ results' = [results EXCEPT !.layers = SetLayer(@, LayerNoData(cfg))]
                /\ NextRiskBand
                /\ UNCHANGED << job_files, faults >>
           ELSE IF FilterRaises(rofsw_clipped[1], cfg)
           THEN /\ Abort("filter_risk_band")
                /\ UNCHANGED << idx, job_files, faults >>
           ELSE LET filtered == FilterClipped(rofsw_clipped[1], cfg)
                    saved == WritesFile(filtered)
                IN  \/ /\ results' = [results EXCEPT !.layers =
                                        SetLayer(@, LayerSaved(cfg, filtered, saved))]
                       /\ job_files' = save_as_shapefile(job_files, filtered, cfg.filename)
                       /\ NextRiskBand
                       /\ UNCHANGED faults
                    \/ /\ saved
                       /\ CanFault
                       /\ Faulted
                       /\ Abort("write_risk_band")
                       /\ UNCHANGED << idx, job_files >>
    /\ UNCHANGED << sidevars, dl, server, call, future, raw_data, rofsw_clipped, clipping,
                    archive, job_dir, clip_log >>

-----------------------------------------------------------------------------
(* process_postcode: step 6, _process_single_layer for each depth layer *)

\* the attribute filter of _process_single_layer
FilterRaw(raw, cfg) ==
    IF cfg.filter_field # None /\ cfg.filter_field \in raw.cols
    THEN FilterEq(raw, cfg.filter_value)
    ELSE raw

\* the loop advances to the next depth layer, or to step 7
NextDepth ==
    IF idx < Len(depth_layers)
    THEN pc' = "depth" /\ idx' = idx + 1
    ELSE pc' = "buffer" /\ idx' = 0

\* _process_single_layer up to its call of clip_to_buffer
DepthBegin ==
    /\ pc = "depth"
    /\ LET cfg == depth_layers[idx]
           raw == RawGet(cfg.ea_layer)
       IN  IF IsEmpty(raw)
           THEN /\ results' = RecordLayer(results, LayerNoData(cfg))
                /\ NextDepth
                /\ UNCHANGED << clipping, clip_log >>
           ELSE IF cfg.filter_field # None /\ FilterRaises(raw, cfg)
           THEN /\ results' = RecordLayer(results, LayerError(cfg, "AttributeError"))
                /\ NextDepth
                /\ UNCHANGED << clipping, clip_log >>
           ELSE IF IsEmpty(FilterRaw(raw, cfg))
           THEN /\ results' = RecordLayer(results, LayerNoData(cfg))
                /\ NextDepth
                /\ UNCHANGED << clipping, clip_log >>
           ELSE /\ pc' = "depth_clip"
                /\ clipping' = clipping \cup {cfg.ea_layer}
                /\ clip_log' = Append(clip_log, cfg.ea_layer)
                /\ UNCHANGED << idx, results >>
    /\ UNCHANGED << sidevars, dl, server, call, future, raw_data, rofsw_clipped, job_files,
                    archive, job_dir, faults >>

\* the clip returns and the layer is saved; an exception of the clip or of the
\* write is caught by _process_single_layer and becomes the layer's result
DepthEnd ==
    /\ pc = "depth_clip"
    /\ LET cfg == depth_layers[idx]
           gdf_clipped == clip_to_buffer(FilterRaw(RawGet(cfg.ea_layer), cfg), RADIUS)
           saved == WritesFile(gdf_clipped)
       IN  /\ clipping' = clipping \ {cfg.ea_layer}
           /\ \/ /\ results' = RecordLayer(results, LayerSaved(cfg, gdf_clipped, saved))
                 /\ job_files' = save_as_shapefile(job_files, gdf_clipped, cfg.filename)
                 /\ UNCHANGED faults
              \/ /\ CanFault
                 /\ Faulted
                 /\ \E msg \in ErrorMessages :
                      results' = RecordLayer(results, LayerError(cfg, msg))
                 /\ UNCHANGED job_files
           /\ NextDepth
    /\ UNCHANGED << sidevars, dl, server, call, future, raw_data, rofsw_clipped, archive, job_dir,
                    clip_log >>

-----------------------------------------------------------------------------
(* process_postcode: steps 7-9, packaging *)

BUFFER_FILE == "search_buffer"

\* buffer_gdf: one row, the buffer polygon
BufferRows == << [id |-> 1, geom |-> << -RADIUS, RADIUS >>, risk_band |-> NaN] >>
METADATA_FILE == "metadata.json"

\* Step 7: the buffer polygon is saved and its entry added to the layers
WriteBuffer ==
    /\ pc = "buffer"
    /\ \/ /\ job_files' = WriteFile(job_files, BUFFER_FILE, BufferRows)
          /\ results' = [results EXCEPT !.layers =
                           SetLayer(@, [key |-> "search_buffer", features |-> 1,
                                        status |-> "ok", error |-> None,
                                        filename |-> BUFFER_FILE])]
          /\ pc' = "metadata"
          /\ UNCHANGED faults
       \/ /\ CanFault
          /\ Faulted
          /\ Abort("write_buffer")
          /\ UNCHANGED job_files
    /\ UNCHANGED << sidevars, dl, server, call, future, raw_data, rofsw_clipped, idx, clipping,
                    archive, job_dir, clip_log >>

\* Step 8: metadata.json is written
WriteMetadata ==
    /\ pc = "metadata"
    /\ \/ /\ job_files' = WriteFile(job_files, METADATA_FILE, << >>)
          /\ pc' = "zip"
          /\ UNCHANGED << results, faults >>
       \/ /\ CanFault
          /\ Faulted
          /\ Abort("write_metadata")
          /\ UNCHANGED job_files
    /\ UNCHANGED << sidevars, dl, server, call, future, raw_data, rofsw_clipped, idx, clipping,
                    archive, job_dir, clip_log >>

\* Step 9, create_zip: zipfile.ZipFile(zip_path, "w") creates the archive file
ZipOpen ==
    /\ pc = "zip"
    /\ archive' = [state |-> "partial", files |-> {}]
    /\ pc' = "zipping"
    /\ UNCHANGED << sidevars, dl, server, call, future, raw_data, rofsw_clipped, idx, clipping,
                    results, job_files, job_dir, clip_log, faults >>

\* create_zip that leaves the files directly under job_dir out of the archive
ZipWrite_SkipsMetadata ==
    /\ pc = "zipping"
    /\ archive' = [state |-> "complete", files |-> DOMAIN job_files \ {METADATA_FILE}]
    /\ pc' = "rmtree"
    /\ UNCHANGED << sidevars, dl, server, call, future, raw_data, rofsw_clipped, idx,
                    clipping, results, faults, job_files, job_dir, clip_log >>

\* create_zip writes every file of the working directory and closes the archive,
\* or raises part-way: the archive file stays where it was created
ZipWrite ==
    /\ pc = "zipping"
    /\ \/ /\ archive' = [state |-> "complete", files |-> DOMAIN job_files]
          /\ pc' = "rmtree"
          /\ UNCHANGED << results, faults >>
       \/ /\ CanFault
          /\ Faulted
          /\ \E written \in SUBSET (DOMAIN job_files) :
               /\ written # DOMAIN job_files
               /\ archive' = [state |-> "partial", files |-> written]
          /\ Abort("zip")
    /\ UNCHANGED << sidevars, dl, server, call, future, raw_data, rofsw_clipped, idx, clipping,
                    job_files, job_dir, clip_log >>

RECURSIVE SumFeatures(_)
\* sum(layer.get("features", 0) for layer in results["layers"].values())
SumFeatures(layers) ==
    IF layers = << >> THEN 0 ELSE Head(layers).features + SumFeatures(Tail(layers))

\* shutil.rmtree(job_dir, ignore_errors=True), total_features, return results
Finish ==
    /\ pc = "rmtree"
    /\ job_dir' = FALSE
    /\ job_files' = << >>
    /\ results' = [results EXCEPT !.zip_file = TRUE,
                                  !.total_features = SumFeatures(results.layers)]
    /\ pc' = "done"
    /\ UNCHANGED << sidevars, dl, server, call, future, raw_data, rofsw_clipped, idx, clipping,
                    archive, clip_log, faults >>

-----------------------------------------------------------------------------
(* api_download *)

\* the names in OUTPUT_DIR of the observed job: its working directory
\* <job_name> and its archive <job_name>.zip
JobDirName == [stem |-> "job_name", ext |-> ""]
ZipName == [stem |-> "job_name", ext |-> ".zip"]

\* filepath.exists(), for filepath = OUTPUT_DIR / filename
PathExists(filename) ==
    \/ filename = ZipName /\ archive.state # "none"
    \/ filename = JobDirName /\ job_dir

\* api_download(filename): 404 unless the path exists and ends in ".zip",
\* otherwise the file is sent as it is
api_download(filename) ==
    IF ~PathExists(filename) \/ filename.ext # ".zip"
    THEN [code |-> 404, sent |-> FALSE, files |-> {}]
    ELSE [code |-> 200, sent |-> TRUE, files |-> archive.files]

-----------------------------------------------------------------------------
(* create_buffer_bbox *)

\* the rectangle in the order (min x, max x, min y, max y)
create_buffer_bbox_AxisOrder(easting, northing, radius) ==
    << easting - radius, easting + radius, northing - radius, northing + radius >>

\* bbox_bng = (easting - radius, northing - radius, easting + radius,
\* northing + radius); bbox_wgs84, its reprojection, is left out
create_buffer_bbox(easting, northing, radius) ==
    << easting - radius, northing - radius, easting + radius, northing + radius >>

NoBBox == [status |-> "none"]

\* one direct call of create_buffer_bbox returns
BBoxCall ==
    /\ bb.status = "called"
    /\ bb' = [bb EXCEPT !.status = "returned",
                        !.bbox_bng = create_buffer_bbox(bb.easting, bb.northing, bb.radius)]
    /\ UNCHANGED << clock, jobs, output_dir, dl, server, jobvars >>

-----------------------------------------------------------------------------
(* Concurrent requests: the names process_postcode gives to a job's working
   directory and archive, and what the job does to them *)

\* postcode.strip().upper().replace(" ", "")
CleanPostcode(postcode) ==
    StrUpper(SelectSeq(postcode, LAMBDA c : c # " "))

\* timestamp = datetime.now().strftime("%Y%m%d_%H%M%S"): the clock in whole
\* seconds; job_name = f"RoFSW_{clean_postcode}_{timestamp}"
JobName(postcode, now) == [postcode |-> CleanPostcode(postcode), timestamp |-> now]

\* the postcodes requested
Postcodes ==
    { << "a", "b", "1" >>, << "A", "B", " ", "1" >>, << "c", "d", "2" >> }

Jobs == 1..MaxJobs

NoJob == [pc |-> "idle", postcode |-> << >>, job_name |-> << >>]

EmptyOutputDir == [dirs |-> << >>, zips |-> << >>]

\* a directory or archive map without one name
Without(m, name) == [n \in DOMAIN m \ {name} |-> m[n]]

\* a directory or archive map with a name set
With(m, name, v) == [n \in DOMAIN m \cup {name} |-> IF n = name THEN v ELSE m[n]]

\* Step 3: the job is named after the postcode and the current second, and
\* shp_dir.mkdir(parents=True, exist_ok=True) makes or adopts the directory
JobStart(j) ==
    /\ jobs[j].pc = "idle"
    /\ \E postcode \in Postcodes :
         LET name == JobName(postcode, clock)
         IN  /\ jobs' = [jobs EXCEPT ![j] = [pc |-> "writing", postcode |-> postcode,
                                             job_name |-> name]]
             /\ output_dir' =
                   IF name \in DOMAIN output_dir.dirs THEN output_dir
                   ELSE [output_dir EXCEPT !.dirs = With(@, name, << >>)]
    /\ UNCHANGED << bb, clock, dl, server, jobvars >>

\* Steps 5-8: the job writes its files into job_dir (the boundary layer and
\* the metadata document at least); a write into a directory that is gone raises
JobWrite(j) ==
    /\ jobs[j].pc = "writing"
    /\ LET name == jobs[j].job_name
       IN  IF name \in DOMAIN output_dir.dirs
           THEN /\ output_dir' =
                     [output_dir EXCEPT !.dirs[name] =
                        With(With(@, BUFFER_FILE, j), METADATA_FILE, j)]
                /\ jobs' = [jobs EXCEPT ![j].pc = "zip"]
           ELSE /\ jobs' = [jobs EXCEPT ![j].pc = "failed"]
                /\ UNCHANGED output_dir
    /\ UNCHANGED << bb, clock, dl, server, jobvars >>

\* Step 9: create_zip(job_dir, OUTPUT_DIR / f"{job_name}.zip") (re)creates the
\* archive from whatever job_dir holds; rglob of a missing directory is empty
JobZip(j) ==
    /\ jobs[j].pc = "zip"
    /\ LET name == jobs[j].job_name
           held == IF name \in DOMAIN output_dir.dirs THEN output_dir.dirs[name] ELSE << >>
       IN  output_dir' = [output_dir EXCEPT !.zips =
                            With(@, name, [writer |-> j, files |-> held])]
    /\ jobs' = [jobs EXCEPT ![j].pc = "rmtree"]
    /\ UNCHANGED << bb, clock, dl, server, jobvars >>

\* shutil.rmtree(job_dir, ignore_errors=True), and the job returns
JobRmtree(j) ==
    /\ jobs[j].pc = "rmtree"
    /\ output_dir' = [output_dir EXCEPT !.dirs = Without(@, jobs[j].job_name)]
    /\ jobs' = [jobs EXCEPT ![j].pc = "returned"]
    /\ UNCHANGED << bb, clock, dl, server, jobvars >>

\* a second passes
Tick ==
    /\ clock < MaxClock
    /\ clock' = clock + 1
    /\ UNCHANGED << bb, jobs, output_dir, dl, server, jobvars >>

\* no direct call of create_buffer_bbox, no other request
SideIdle ==
    /\ bb = NoBBox
    /\ clock = 0
    /\ jobs = [j \in Jobs |-> NoJob]
    /\ output_dir = EmptyOutputDir

-----------------------------------------------------------------------------
(* Specifications *)

NoResults ==
    [layers |-> << >>, errors |-> << >>, fatal |-> None, zip_file |-> FALSE,
     total_features |-> -1]

JobIdle ==
    /\ call = [n \in unique_layers |-> NoCall]
    /\ future = [n \in unique_layers |->
                   [state |-> "none", raised |-> FALSE, exc |-> None,
                    result |-> EmptyFrame]]
    /\ raw_data = << >>
    /\ rofsw_clipped = NotClipped
    /\ idx = 0
    /\ clipping = {}
    /\ results = NoResults
    /\ job_files = << >>
    /\ archive = [state |-> "none", files |-> {}]
    /\ job_dir = FALSE
    /\ clip_log = << >>
    /\ faults = [request |-> 0, derive |-> 0]

\* one job: process_postcode is entered
Init ==
    /\ dl = NoCall
    /\ server \in Servers
    /\ pc = "geocode"
    /\ JobIdle
    /\ SideIdle

Next ==
    \/ Geocode
    \/ Setup
    \/ \E n \in unique_layers : WorkerAttempt(n)
    \/ \E n \in unique_layers : Collect(n)
    \/ EndFetch
    \/ ClipRofswBegin
    \/ ClipRofswEnd
    \/ RiskBandStep
    \/ DepthBegin
    \/ DepthEnd
    \/ WriteBuffer
    \/ WriteMetadata
    \/ ZipOpen
    \/ ZipWrite
    \/ Finish

Spec == Init /\ [][Next]_vars

\* one job in which every step that can be taken is taken in the end: a pool
\* thread keeps running its call, each request (timeout=180), clip and file
\* operation returns or raises, and the main thread runs on
\* the servers of the termination check: the one that answers every identifier
\* with an empty body and the one whose downloads reach every later stage
LiveServers ==
    { s \in Servers : s["rofsw"] \in { ZeroBytes, ZipOf(RofswMixed) } }

InitLive ==
    /\ dl = NoCall
    /\ server \in LiveServers
    /\ pc = "geocode"
    /\ JobIdle
    /\ SideIdle

\* every call the job makes returns or fails, so a step that is enabled is
\* taken in the end
SpecLive == InitLive /\ [][Next]_vars /\ WF_vars(Next)

\* the texts drawn for the risk_band column of a clipped categorical source
BandTexts ==
    { Str_High, << "H", "I", "G", "H" >>, << "h", "i", "g", "h" >>,
      Str_Medium, << "m", "e", "d", "i", "u", "m" >>,
      Str_Low, << "L", "O", "W" >>,
      NaN, << "L", "o", "w", "e", "r" >> }

\* the dataset of one-part features, all inside the buffer, with these texts
BandDataset(bands) ==
    Dataset("object", [i \in DOMAIN bands |-> Feature(<< CellInside >>, bands[i])])

\* process_postcode at the head of the risk-band loop, the fetch phase and the
\* shared clip done, for a categorical source drawn from the bounded datasets
\* (the other layers answered with zero bytes)
InitSplit ==
    /\ dl = NoCall
    /\ pc = "risk_bands"
    /\ idx = 1
    /\ \E bands \in SeqsUpTo(BandTexts, MaxRows) \ { << >> } :
         /\ server = [n \in EA_LAYER_IDS |->
                        IF n = "rofsw" THEN ZipOf(BandDataset(bands)) ELSE ZeroBytes]
    /\ call = [n \in unique_layers |-> NoCall]
    /\ future = [n \in unique_layers |->
                   [state |-> "finished", raised |-> FALSE, exc |-> None,
                    result |-> ParseFrame(n, server[n])]]
    /\ raw_data = [n \in unique_layers |-> ParseFrame(n, server[n])]
    /\ rofsw_clipped = << clip_to_buffer(raw_data["rofsw"], RADIUS) >>
    /\ clipping = {}
    /\ clip_log = << "rofsw" >>
    /\ results = NoResults
    /\ job_files = << >>
    /\ archive = [state |-> "none", files |-> {}]
    /\ job_dir = TRUE
    /\ faults = [request |-> 0, derive |-> 0]
    /\ SideIdle

NextSplit == RiskBandStep

SpecSplit == InitSplit /\ [][NextSplit]_vars

\* one call of download_ea_layer with the default budget, for any layer name
InitDownload ==
    /\ dl \in { NewCall(n, DEFAULT_MAX_RETRIES) : n \in EA_LAYER_IDS }
    /\ server = [n \in EA_LAYER_IDS |-> ZeroBytes]
    /\ pc = "idle"
    /\ JobIdle
    /\ SideIdle

NextDownload == DlAttempt

SpecDownload == InitDownload /\ [][NextDownload]_vars

\* the cells drawn for the records given to clip_to_buffer
Cells == { CellInside, CellStraddle, CellEdge, CellTouch, CellOutside }

\* the dataset of one-part features with these geometries
CellDataset(cells) ==
    Dataset("object", [i \in DOMAIN cells |-> Feature(<< cells[i] >>, Str_High)])

\* process_postcode before its first call of clip_to_buffer, for a categorical
\* source of any records drawn from the cells (none included)
InitClip ==
    /\ dl = NoCall
    /\ pc = "clip_rofsw"
    /\ idx = 0
    /\ \E cells \in SeqsUpTo(Cells, MaxRows) :
         server = [n \in EA_LAYER_IDS |->
                     IF n = "rofsw" THEN ZipOf(CellDataset(cells)) ELSE ZeroBytes]
    /\ call = [n \in unique_layers |-> NoCall]
    /\ future = [n \in unique_layers |->
                   [state |-> "finished", raised |-> FALSE, exc |-> None,
                    result |-> ParseFrame(n, server[n])]]
    /\ raw_data = [n \in unique_layers |-> ParseFrame(n, server[n])]
    /\ rofsw_clipped = NotClipped
    /\ clipping = {}
    /\ clip_log = << >>
    /\ results = NoResults
    /\ job_files = << >>
    /\ archive = [state |-> "none", files |-> {}]
    /\ job_dir = TRUE
    /\ faults = [request |-> 0, derive |-> 0]
    /\ SideIdle

NextClip ==
    \/ ClipRofswBegin
    \/ ClipRofswEnd

SpecClip == InitClip /\ [][NextClip]_vars

\* the centres and radii drawn for create_buffer_bbox
Eastings == {0, 1, 530000, 654321}
Northings == {0, 2, 180000, 1234567}
Radii == {1, 250, 500, 1000}

\* one call of create_buffer_bbox, for any centre and any radius r > 0
InitBBox ==
    /\ bb \in { [status |-> "called", easting |-> e, northing |-> n, radius |-> r,
                  bbox_bng |-> << >>] : e \in Eastings, n \in Northings, r \in Radii }
    /\ clock = 0
    /\ jobs = [j \in Jobs |-> NoJob]
    /\ output_dir = EmptyOutputDir
    /\ dl = NoCall
    /\ server = [n \in EA_LAYER_IDS |-> ZeroBytes]
    /\ pc = "idle"
    /\ JobIdle

NextBBox == BBoxCall

SpecBBox == InitBBox /\ [][NextBBox]_vars

\* requests served at once by the threaded server, each a run of
\* process_postcode seen through its directory and archive names
InitJobs ==
    /\ SideIdle
    /\ dl = NoCall
    /\ server = [n \in EA_LAYER_IDS |-> ZeroBytes]
    /\ pc = "idle"
    /\ JobIdle

NextJobs ==
    \/ \E j \in Jobs : JobStart(j)
    \/ \E j \in Jobs : JobWrite(j)
    \/ \E j \in Jobs : JobZip(j)
    \/ \E j \in Jobs : JobRmtree(j)
    \/ Tick

SpecJobs == InitJobs /\ [][NextJobs]_vars

-----------------------------------------------------------------------------
(* Claims about download_ea_layer, checked under SpecDownload *)

\* the last request of the call was answered without raising
LastAttemptSucceeded == dl.requests = dl.failed + 1

(* C1: one call with the default budget issues at most 3 requests, issues no
   request after the first successful one, and raises to its caller only
   after exactly 3 attempts that all failed.  The property as claimed: the
   code violates it, because a successful answer of 100 bytes or more that is
   not a zip archive makes zipfile.ZipFile raise out of the call. *)
C1_RaisesOnlyAfterThreeFailures ==
    /\ dl.requests <= 3
    /\ dl.requests - dl.failed <= 1
    /\ (dl.requests > dl.failed => dl.status # "running")
    /\ (dl.status = "raised" => dl.requests = 3 /\ dl.failed = 3)

(* C2: a successful attempt whose payload is under 100 bytes (0 bytes
   included) makes the call return an empty collection, without an error and
   without a further attempt; a payload of 100 bytes or more is never settled
   by that rule. *)
C2_TinyPayloadIsNoData ==
    (dl.status # "running" /\ LastAttemptSucceeded) =>
        /\ dl.size < 100 =>
              /\ dl.status = "returned"
              /\ dl.rule = "tiny"
              /\ dl.result = EmptyFrame
              /\ IsEmpty(dl.result)
        /\ dl.size >= 100 => dl.rule # "tiny"
        /\ ~ENABLED DlAttempt

\* a 99-byte answer to the second attempt ended the call with an empty collection
C2_Witness ==
    /\ dl.status = "returned"
    /\ dl.size = 99
    /\ dl.failed = 1
    /\ dl.requests = 2

-----------------------------------------------------------------------------
(* Claims about the fetch phase of process_postcode, checked under Spec *)

\* the requests of the task all failed: its call raised a transport failure
FetchFailed(n) ==
    /\ future[n].state = "finished"
    /\ future[n].raised
    /\ future[n].exc \in {"conn_error", "http_error"}

\* every task has been collected into raw_data
AllCollected == DOMAIN raw_data = unique_layers

\* the entries of results["layers"] of the output layers fed by layer n
EntriesFedBy(n) ==
    { i \in DOMAIN results.layers :
        /\ results.layers[i].key # "search_buffer"
        /\ LayerCfg(results.layers[i].key).ea_layer = n }

OutputsFedBy(n) ==
    { ROFSW_LAYERS[i].key : i \in { j \in DOMAIN ROFSW_LAYERS : ROFSW_LAYERS[j].ea_layer = n } }

(* C3: when the fetch of one identifier fails after exhausting its retries,
   the job does not abort in the fetch phase, every other fetch runs to
   completion and keeps its own result, and every output layer fed by the
   failed identifier is derived from an empty collection: 0 features, status
   no_data. *)
C3_FetchFailureIsContained ==
    \A n \in unique_layers :
        FetchFailed(n) =>
            /\ pc = "failed" => AllCollected
            /\ n \in DOMAIN raw_data => IsEmpty(raw_data[n])
            /\ pc # "fetch" => \A m \in unique_layers : future[m].state = "finished"
            /\ \A m \in DOMAIN raw_data :
                   ~future[m].raised => raw_data[m] = ParseFrame(m, server[m])
            /\ \A i \in EntriesFedBy(n) :
                   /\ results.layers[i].features = 0
                   /\ results.layers[i].status = "no_data"
            /\ pc = "done" =>
                   OutputsFedBy(n) \subseteq
                       { results.layers[i].key : i \in EntriesFedBy(n) }

\* a job returned although the fetch of a layer that has data failed three
\* times, and another layer was written
C3_Witness ==
    /\ pc = "done"
    /\ \E n \in unique_layers :
          /\ FetchFailed(n)
          /\ server[n].dataset.features # << >>
          /\ \E i \in EntriesFedBy(n) : results.layers[i].status = "no_data"
    /\ \E i \in DOMAIN results.layers :
          results.layers[i].key # "search_buffer" /\ results.layers[i].status = "ok"

(* C4: when the fetch of exactly one of the six layers fails all its retries
   and the other five succeed, the JobResult returned has exactly one entry in
   its errors list.  The property as claimed: the code only logs the failed
   fetch and appends nothing to results["errors"]. *)
C4_FailedFetchIsListedInErrors ==
    ( /\ pc = "done"
      /\ \E n \in unique_layers :
            /\ FetchFailed(n)
            /\ \A m \in unique_layers \ {n} : ~future[m].raised )
    => Len(results.errors) = 1

\* a derive step has begun: a clip, a filter, a layer result or a file write
DeriveBegun ==
    \/ pc \in {"clip_rofsw_run", "risk_bands", "depth", "depth_clip", "buffer",
               "metadata", "zip", "zipping", "rmtree", "done"}
    \/ clip_log # << >>
    \/ clipping # {}
    \/ rofsw_clipped # NotClipped
    \/ results.layers # << >>
    \/ DOMAIN job_files # {}

(* C5: the barrier.  No derive step (the clip of the categorical source, a
   filter, a per-layer clip, a file write) begins before every fetch task has
   finished, by success or by terminal failure, in whatever order the fetches
   complete. *)
C5_Barrier ==
    DeriveBegun => \A n \in unique_layers : future[n].state = "finished"

\* the shared clip runs after a fetch phase in which one task raised
C5_Witness ==
    /\ pc = "clip_rofsw_run"
    /\ \E n \in unique_layers : FetchFailed(n)
    /\ \E n \in unique_layers : future[n].state = "finished" /\ ~future[n].raised

-----------------------------------------------------------------------------
(* Claims about the derive phase of process_postcode, checked under Spec *)

(* C6: for every configured output layer, the categorical ones included, a
   failure raised while deriving it (filter, clip or file write) is caught and
   does not abort the job.  The property as claimed: the code catches such a
   failure only in _process_single_layer, which derives the depth layers; the
   clip of the categorical source and the filter and write of a risk band
   raise out of process_postcode. *)
C6_DeriveFailureNeverAborts ==
    pc = "failed" =>
        results.fatal \notin {"clip_rofsw", "filter_risk_band", "write_risk_band"}

(* C7: within one job at most one clip_to_buffer invocation is in progress at
   any moment, and none is in progress while a fetch task is still running. *)
C7_ClipIsSerial ==
    /\ Cardinality(clipping) <= 1
    /\ clipping # {} => \A n \in unique_layers : future[n].state # "running"

\* the clip of the first depth layer is in progress, after the shared clip
C7_Witness ==
    /\ clipping = {"rofsw_0_2m_depth"}
    /\ clip_log = << "rofsw", "rofsw_0_2m_depth" >>

IsPrefix(a, b) == Len(a) <= Len(b) /\ \A i \in DOMAIN a : a[i] = b[i]

LayerKeys == [i \in DOMAIN results.layers |-> results.layers[i].key]

DeclarationOrder ==
    << "risk_band_High", "risk_band_Medium", "risk_band_Low", "depth_0.2m",
       "depth_0.3m", "depth_0.6m", "depth_0.9m", "depth_1.2m" >>

(* C8: the output layers are derived in the declaration order of the layer
   table; the result and the file of a layer are recorded before the
   derivation of the next layer begins; the order is the same in every run. *)
C8_DeclarationOrder ==
    /\ DeclarationOrder = [i \in DOMAIN ROFSW_LAYERS |-> ROFSW_LAYERS[i].key]
    /\ IsPrefix(LayerKeys, DeclarationOrder \o << "search_buffer" >>)
    /\ pc = "risk_bands" => Len(results.layers) = idx - 1
    /\ pc \in {"depth", "depth_clip"} => Len(results.layers) = 3 + idx - 1
    /\ job_dir =>
          \A i \in DOMAIN results.layers :
              results.layers[i].status = "ok" =>
                  results.layers[i].filename \in DOMAIN job_files

\* a job returned with all eight layers and the buffer recorded, some written
C8_Witness ==
    /\ pc = "done"
    /\ Len(results.layers) = 9
    /\ \E i \in DOMAIN results.layers :
          results.layers[i].key = "depth_1.2m" /\ results.layers[i].status = "ok"
    /\ \E i \in DOMAIN results.layers :
          results.layers[i].key = "risk_band_High" /\ results.layers[i].status = "ok"

\* how many times clip_to_buffer was invoked on layer n
ClipCount(n) == Cardinality({ i \in DOMAIN clip_log : clip_log[i] = n })

\* the file written for an output layer, when there is one
RiskBandEntries ==
    { i \in DOMAIN results.layers :
        results.layers[i].key \in {"risk_band_High", "risk_band_Medium", "risk_band_Low"} }

(* C9: the categorical source is clipped at most once, and exactly once when
   its fetched collection is not empty; the three categorical outputs are made
   of rows of that clipped result, and deriving them invokes no clip; a job
   invokes the clip at most 6 times. *)
C9_CategoricalSourceClippedOnce ==
    /\ ClipCount("rofsw") <= 1
    /\ Len(clip_log) <= 6
    /\ (pc \in {"risk_bands", "depth"} /\ ~IsEmpty(RawGet("rofsw")))
          => ClipCount("rofsw") = 1 /\ rofsw_clipped # NotClipped
    /\ (pc = "risk_bands" \/ (pc = "depth" /\ idx = 1))
          => \A i \in DOMAIN clip_log : clip_log[i] = "rofsw"
    /\ job_dir =>
          \A i \in RiskBandEntries :
              results.layers[i].status = "ok" =>
                  /\ rofsw_clipped # NotClipped
                  /\ \A j \in DOMAIN job_files[results.layers[i].filename] :
                        \E k \in DOMAIN rofsw_clipped[1].rows :
                            rofsw_clipped[1].rows[k]
                              = job_files[results.layers[i].filename][j]

\* a job returned after six clips: the shared one and one per depth layer
C9_Witness ==
    /\ pc = "done"
    /\ Len(clip_log) = 6
    /\ ClipCount("rofsw") = 1
    /\ \E i \in RiskBandEntries : results.layers[i].status = "ok"

-----------------------------------------------------------------------------
(* Claim about the risk-band split, checked under SpecSplit *)

HighTexts   == { << "H", "i", "g", "h" >>, << "H", "I", "G", "H" >>, << "h", "i", "g", "h" >> }
MediumTexts == { << "M", "e", "d", "i", "u", "m" >>, << "m", "e", "d", "i", "u", "m" >> }
LowTexts    == { << "L", "o", "w" >>, << "L", "O", "W" >> }

\* every feature's risk_band is High, Medium or Low, whatever its case
EveryBandKnown(rows) ==
    \A i \in DOMAIN rows : rows[i].risk_band \in HighTexts \cup MediumTexts \cup LowTexts

\* the rows written for an output file, none when the file was skipped
FileRows(name) == IF name \in DOMAIN job_files THEN job_files[name] ELSE << >>

RowIds(rows) == { rows[i].id : i \in DOMAIN rows }

RECURSIVE SumSeq(_)
SumSeq(q) == IF q = << >> THEN 0 ELSE Head(q) + SumSeq(Tail(q))

(* C10: for a clipped categorical source in which every feature's risk_band
   matches, case-insensitively, exactly one of High, Medium, Low, the three
   categorical outputs are pairwise disjoint and together cover the clipped
   source: their feature counts sum to the feature count of the clipped
   source. *)
C10_RiskBandsPartition ==
    (pc = "depth" /\ EveryBandKnown(rofsw_clipped[1].rows)) =>
        LET src == rofsw_clipped[1].rows
            hi  == FileRows("risk_band_High")
            med == FileRows("risk_band_Medium")
            low == FileRows("risk_band_Low")
        IN  /\ Len(results.layers) = 3
            /\ SumSeq([i \in 1..3 |-> results.layers[i].features]) = Len(src)
            /\ results.layers[1].features = Len(hi)
            /\ results.layers[2].features = Len(med)
            /\ results.layers[3].features = Len(low)
            /\ RowIds(hi) \cap RowIds(med) = {}
            /\ RowIds(hi) \cap RowIds(low) = {}
            /\ RowIds(med) \cap RowIds(low) = {}
            /\ RowIds(hi) \cup RowIds(med) \cup RowIds(low) = RowIds(src)
            /\ \A i \in DOMAIN hi : hi[i].risk_band \in HighTexts
            /\ \A i \in DOMAIN med : med[i].risk_band \in MediumTexts
            /\ \A i \in DOMAIN low : low[i].risk_band \in LowTexts

\* three features, one per band and none in the case of the layer table, were
\* split into three files
C10_Witness ==
    /\ pc = "depth"
    /\ EveryBandKnown(rofsw_clipped[1].rows)
    /\ Len(rofsw_clipped[1].rows) = 3
    /\ \A i \in 1..3 : results.layers[i].features = 1
    /\ Str_High \notin { rofsw_clipped[1].rows[i].risk_band : i \in 1..3 }
    /\ DOMAIN job_files = {"risk_band_High", "risk_band_Medium", "risk_band_Low"}

-----------------------------------------------------------------------------
(* Claims about the result and the packaging of a job, checked under Spec *)

\* the remote API answers every layer with a zero-byte payload
AllZeroBytes == \A n \in EA_LAYER_IDS : server[n] = ZeroBytes

\* every fetch task ended with an answer, none by a failure
EveryFetchReturned ==
    \A n \in unique_layers : future[n].state = "finished" /\ ~future[n].raised

\* the entries of results["layers"] of the configured output layers
OutputEntries ==
    { i \in DOMAIN results.layers : results.layers[i].key # "search_buffer" }

(* C11: when every fetch returns a zero-byte payload the job completes with
   every output layer no_data, total_features equal to 0, and an archive that
   holds only the boundary layer and the metadata document.  The property as
   claimed: the code sums the features of every entry of results["layers"],
   the search_buffer entry (features 1) included, so total_features is 1. *)
C11_ZeroByteJob ==
    (AllZeroBytes /\ EveryFetchReturned) =>
        /\ (pc = "failed" => faults.derive > 0)
        /\ pc = "done" =>
              /\ \A i \in OutputEntries : results.layers[i].status = "no_data"
              /\ results.total_features = 0
              /\ archive.state = "complete"
              /\ archive.files = {BUFFER_FILE, METADATA_FILE}

-----------------------------------------------------------------------------
(* Claim about concurrent jobs, checked under SpecJobs *)

\* the job holds a working directory name and has not returned
Executing(j) == jobs[j].pc \in {"writing", "zip", "rmtree"}

(* C12: two jobs that execute concurrently, two requests for the same postcode
   within one clock second included, have distinct working directory and
   archive names, so no job writes into, archives or deletes what belongs to
   another job.  The property as claimed: job_name is the cleaned postcode and
   a timestamp of one-second resolution, so such requests share one name. *)
C12_JobNamesAreDistinct ==
    /\ \A j, k \in Jobs :
          (j # k /\ Executing(j) /\ Executing(k)) =>
              jobs[j].job_name # jobs[k].job_name
    /\ \A name \in DOMAIN output_dir.zips :
          \A f \in DOMAIN output_dir.zips[name].files :
              output_dir.zips[name].files[f] = output_dir.zips[name].writer
    /\ \A j \in Jobs : jobs[j].pc # "failed"

-----------------------------------------------------------------------------
(* Claims about packaging, checked under Spec *)

\* packaging raised: the boundary layer, the metadata document or the archive
PackagingFailed ==
    pc = "failed" /\ results.fatal \in {"write_buffer", "write_metadata", "zip"}

(* C13: when packaging fails at any point (the boundary layer, the metadata
   document, part-way through the archive) the job fails as a whole and no
   archive of the job, complete or partial, is left where api_download
   returns it.  The property as claimed: create_zip opens the archive at its
   final path and nothing removes it when a write raises, so api_download
   sends the partial archive. *)
C13_NoArchiveAfterPackagingFailure ==
    PackagingFailed =>
        /\ ~results.zip_file
        /\ archive.state = "none"
        /\ api_download(ZipName).code = 404

\* the files a job has to have written before it is packaged: one per layer
\* entry with status ok (the boundary layer is one), and the metadata document
ExpectedFiles ==
    { results.layers[i].filename :
        i \in { k \in DOMAIN results.layers : results.layers[k].status = "ok" } }
    \cup {METADATA_FILE}

\* process_postcode has made its working directory
JobSetUp == \A n \in unique_layers : future[n].state # "none"

(* C14: packaging order.  The archive is created only after every layer file,
   the boundary layer and the metadata document are written; the file set of
   the complete archive is the file set of the working directory at that
   moment; the working directory is removed only after the archive is
   complete; when process_postcode returns, the archive exists and the
   working directory does not. *)
C14_PackagingOrder ==
    /\ archive.state # "none" =>
          /\ pc \in {"zipping", "rmtree", "done", "failed"}
          /\ "search_buffer" \in { results.layers[i].key : i \in DOMAIN results.layers }
          /\ job_dir => ExpectedFiles \subseteq DOMAIN job_files
    /\ pc = "rmtree" =>
          /\ archive.state = "complete"
          /\ job_dir
          /\ archive.files = DOMAIN job_files
    /\ (JobSetUp /\ ~job_dir) => archive.state = "complete"
    /\ pc = "done" =>
          /\ archive.state = "complete"
          /\ archive.files = ExpectedFiles
          /\ ~job_dir
          /\ job_files = << >>
          /\ results.zip_file
          /\ api_download(ZipName).code = 200
          /\ api_download(JobDirName).code = 404

\* a job returned with an archive of the boundary layer, the metadata document
\* and the files of at least two output layers
C14_Witness ==
    /\ pc = "done"
    /\ archive.state = "complete"
    /\ ~job_dir
    /\ {BUFFER_FILE, METADATA_FILE} \subseteq archive.files
    /\ Cardinality(archive.files) >= 4

\* how many entries results["layers"] holds under a key
EntriesWithKey(key) ==
    Cardinality({ i \in DOMAIN results.layers : results.layers[i].key = key })

(* C15: on every successful return the layers map holds exactly one entry for
   each of the 8 configured output layers, and the search_buffer entry,
   whatever fetches failed, returned no data or returned data. *)
C15_OneEntryPerLayer ==
    pc = "done" =>
        /\ \A i \in DOMAIN ROFSW_LAYERS : EntriesWithKey(ROFSW_LAYERS[i].key) = 1
        /\ EntriesWithKey("search_buffer") = 1
        /\ Len(results.layers) = Len(ROFSW_LAYERS) + 1
        /\ Len(ROFSW_LAYERS) = 8

\* a job returned after one fetch failed, with layers of three kinds: written,
\* empty after the clip, and without data
C15_Witness ==
    /\ pc = "done"
    /\ \E n \in unique_layers : FetchFailed(n)
    /\ \E i \in OutputEntries : results.layers[i].status = "ok"
    /\ \E i \in OutputEntries : results.layers[i].status = "empty_after_clip"
    /\ \E i \in OutputEntries : results.layers[i].status = "no_data"

-----------------------------------------------------------------------------
(* Claims about clip_to_buffer, checked under SpecClip *)

\* no vertex of the geometry is strictly outside the buffer
WithinBuffer(g, r) == -r <= g[1] /\ g[2] <= r

(* C16: every record emitted by clip_to_buffer lies within (or touches) the
   boundary, a record whose centroid is inside while part of its geometry is
   outside included.  The property as claimed: the code returns the records
   whose centroid is inside the buffer as they are, unclipped. *)
C16_EmittedWithinBoundary ==
    rofsw_clipped # NotClipped =>
        \A i \in DOMAIN rofsw_clipped[1].rows :
            WithinBuffer(rofsw_clipped[1].rows[i].geom, RADIUS)

(* C17: clip_to_buffer is idempotent: applied to its own output with the same
   boundary it returns that output, the same records with the same geometries
   in the same order, inputs with boundary-crossing records included. *)
C17_ClipIsIdempotent ==
    rofsw_clipped # NotClipped =>
        clip_to_buffer(rofsw_clipped[1], RADIUS) = rofsw_clipped[1]

\* the clip of three records, one inside, one crossing the boundary with its
\* centroid outside and one outside, returned two: the crossing one was cut
C17_Witness ==
    /\ rofsw_clipped # NotClipped
    /\ Len(raw_data["rofsw"].rows) = 3
    /\ { raw_data["rofsw"].rows[i].geom : i \in 1..3 } = { CellInside, CellEdge, CellOutside }
    /\ Len(rofsw_clipped[1].rows) = 2
    /\ \E i \in 1..2 : rofsw_clipped[1].rows[i].geom = Intersection(CellEdge, RADIUS)
    /\ \E i \in 1..2 : rofsw_clipped[1].rows[i].geom # raw_data["rofsw"].rows[i].geom

-----------------------------------------------------------------------------
(* Claim about create_buffer_bbox, checked under SpecBBox *)

(* C18: for every centre (easting, northing) and every radius r > 0,
   create_buffer_bbox returns the projected rectangle (easting - r,
   northing - r, easting + r, northing + r); the centre (530000, 180000) with
   radius 500 gives (529500, 179500, 530500, 180500). *)
C18_BBoxAroundCentre ==
    bb.status = "returned" =>
        LET b == bb.bbox_bng
        IN  /\ Len(b) = 4
            /\ b[1] + bb.radius = bb.easting
            /\ b[2] + bb.radius = bb.northing
            /\ b[3] - bb.radius = bb.easting
            /\ b[4] - bb.radius = bb.northing
            /\ b[1] < b[3]
            /\ b[2] < b[4]
            /\ (bb.easting = 530000 /\ bb.northing = 180000 /\ bb.radius = 500)
                  => b = << 529500, 179500, 530500, 180500 >>

\* the call for the centre (530000, 180000) and the radius 500 returned
C18_Witness ==
    /\ bb.status = "returned"
    /\ bb.easting = 530000
    /\ bb.northing = 180000
    /\ bb.radius = 500
    /\ bb.bbox_bng[1] = 529500

-----------------------------------------------------------------------------
(* Claim about the backoff of download_ea_layer, checked under SpecDownload *)

(* C19: the backoff grows linearly: after failed attempt k (k = 1, 2) the call
   waits k x 3 seconds before attempt k + 1, so the waits are 3 s then 6 s;
   there is no wait after the final failed attempt or after a successful one,
   so one call waits at most 9 s in all. *)
C19_LinearBackoff ==
    /\ IsPrefix(dl.waits, << 3, 6 >>)
    /\ \A k \in DOMAIN dl.waits : dl.waits[k] = k * 3
    /\ dl.status = "running" => Len(dl.waits) = dl.failed /\ dl.attempt = dl.failed + 1
    /\ (dl.status # "running" /\ LastAttemptSucceeded) => Len(dl.waits) = dl.failed
    /\ (dl.status = "raised" /\ ~LastAttemptSucceeded) =>
          /\ dl.failed = 3
          /\ dl.waits = << 3, 6 >>
    /\ SumSeq(dl.waits) <= 9

\* the call raised after three failed attempts, having waited 3 s and 6 s
C19_Witness ==
    /\ dl.status = "raised"
    /\ dl.requests = 3
    /\ dl.failed = 3
    /\ dl.waits = << 3, 6 >>

-----------------------------------------------------------------------------
(* Claim about the job-level errors list, checked under Spec *)

\* the errors list holds an entry for the layer
ListedInErrors(key) ==
    \E k \in DOMAIN results.errors : results.errors[k][1] = key

(* C20: on every successful return the errors list is consistent with the
   per-layer results: a layer has status error if and only if the errors list
   holds an entry for it, whatever exception the derivation raised, one with
   an empty message included.  The property as claimed: the code appends to
   the errors list only when the entry's "error" text is truthy, and str(e) of
   an exception without a message is the empty string. *)
C20_ErrorsMatchLayers ==
    pc = "done" =>
        \A i \in OutputEntries :
            results.layers[i].status = "error" <=> ListedInErrors(results.layers[i].key)

-----------------------------------------------------------------------------
(* Claims about the per-layer results of a job, checked under Spec *)

\* the collection an output layer ends with, when its derivation raised nothing:
\* the filtered pre-clipped source of a risk band, the clipped source of a
\* depth layer, an empty collection when the layer was settled before
FinalCollection(cfg) ==
    IF StartsWithDepth(cfg.key)
    THEN IF IsEmpty(RawGet(cfg.ea_layer)) \/ IsEmpty(FilterRaw(RawGet(cfg.ea_layer), cfg))
         THEN EmptyFrame
         ELSE clip_to_buffer(FilterRaw(RawGet(cfg.ea_layer), cfg), RADIUS)
    ELSE IF NoCategoricalData(rofsw_clipped)
         THEN EmptyFrame
         ELSE FilterClipped(rofsw_clipped[1], cfg)

(* C21: for every derived output layer of a returned JobResult, a geometry
   file was written if and only if the layer's final collection is not empty;
   the status is ok if and only if the file was written, and then features > 0
   and filename is set; for no_data, empty_after_clip and error, features is 0
   and the archive holds no file of the layer. *)
C21_FileIffNonEmpty ==
    /\ pc = "done" =>
          \A i \in OutputEntries :
              LET e   == results.layers[i]
                  cfg == LayerCfg(e.key)
              IN  /\ e.status \in {"ok", "no_data", "empty_after_clip", "error"}
                  /\ e.status # "error" =>
                        (cfg.filename \in archive.files <=> ~IsEmpty(FinalCollection(cfg)))
                  /\ e.status = "ok" <=> cfg.filename \in archive.files
                  /\ e.status = "ok" =>
                        /\ e.features > 0
                        /\ e.features = Len(FinalCollection(cfg).rows)
                        /\ e.filename = cfg.filename
                  /\ e.status # "ok" =>
                        /\ e.features = 0
                        /\ e.filename = None
                        /\ cfg.filename \notin archive.files
    /\ job_dir =>
          \A i \in OutputEntries :
              LET e == results.layers[i]
              IN  /\ e.status = "ok" <=> LayerCfg(e.key).filename \in DOMAIN job_files
                  /\ e.status = "ok" => e.features = Len(job_files[e.filename])

\* a job returned with a layer of each status: written, without data, empty
\* after the clip, and failed
C21_Witness ==
    /\ pc = "done"
    /\ \A st \in {"ok", "no_data", "empty_after_clip", "error"} :
          \E i \in OutputEntries : results.layers[i].status = st
    /\ \E i \in OutputEntries : results.layers[i].features > 1

(* C22: a layer is reported no_data only when its remote source returned no
   usable data (the fetch failed or returned an empty collection); a layer
   whose source collection is not empty but has no record surviving the clip
   is reported empty_after_clip, the categorical layers like the others.  The
   property as claimed: the risk-band loop reports no_data whenever the
   pre-clipped source is empty, also when the source itself was not. *)
C22_NoDataOnlyWithoutSource ==
    \A i \in OutputEntries :
        LET e   == results.layers[i]
            raw == RawGet(LayerCfg(e.key).ea_layer)
        IN  /\ e.status = "no_data" => IsEmpty(raw)
            /\ (~IsEmpty(raw) /\ IsEmpty(clip_to_buffer(raw, RADIUS)) /\ e.status # "error")
                  => e.status = "empty_after_clip"

-----------------------------------------------------------------------------
(* Claim about termination, checked under SpecLive *)

\* process_postcode returned a JobResult, or raised a job-fatal error
Terminated == pc \in {"done", "failed"}

(* C23: every job terminates.  Given that each request, clip and file
   operation returns or fails, process_postcode in the end returns a JobResult
   or raises a job-fatal error and stays there, whatever the outcomes of the
   fetch attempts: so the fetch phase does not wait forever on a failed
   identifier; and a fetch task that is still running has made fewer than 3
   requests, so each task ends after at most 3 attempts. *)
C23_JobTerminates ==
    /\ <>[]Terminated
    /\ [](\A n \in unique_layers :
             call[n].status = "running" => call[n].requests < 3)

\* a job returned although the three attempts of one fetch task all failed
C23_Witness ==
    /\ Terminated
    /\ pc = "done"
    /\ faults.request = 3
    /\ \E n \in unique_layers : FetchFailed(n)

=============================================================================
